---- MODULE Spec2Model ----
(***************************************************************************)
(* A model of tools/CrossStackProfiler/ProfileFileReader.py: the class     *)
(* profileFileReader.  Five groups of operations are modelled, each with   *)
(* its own specification over the variable that holds its state:           *)
(*   SpecFB    _allocate_forwardBackwardInfo  (one call, loop by loop)     *)
(*   SpecPipe  getPipeLineInfo / _getPipeLineInfo (workers, queue, merge)  *)
(*   SpecPids  _allocate_pids (one call, event by event)                   *)
(*   SpecMem   _allocate_memory_event (one call, on the table of           *)
(*             _allocate_pids for the same profiles)                       *)
(*   SpecOp    getOPTraceInfo (one worker per gpuId, join, return)         *)
(***************************************************************************)
EXTENDS Integers, Sequences, FiniteSets, TLC

VARIABLES fb, fbArg, pipe, pids, mem, op

vars == <<fb, fbArg, pipe, pids, mem, op>>

\* A group that is not running holds this value.
Idle == [pc |-> "idle"]

(***************************************************************************)
(* Python values.  A str is a sequence of one-character strings, so that   *)
(* endswith, rfind, slicing and split act on characters as they do in the  *)
(* code.                                                                   *)
(***************************************************************************)
STR_marker_forward_B ==
    <<"m","a","r","k","e","r","_","f","o","r","w","a","r","d","_","B">>
STR_marker_forward_E ==
    <<"m","a","r","k","e","r","_","f","o","r","w","a","r","d","_","E">>
STR_marker_backward_B ==
    <<"m","a","r","k","e","r","_","b","a","c","k","w","a","r","d","_","B">>
STR_marker_backward_E ==
    <<"m","a","r","k","e","r","_","b","a","c","k","w","a","r","d","_","E">>
STR_MarkerCUDA ==
    <<"m","a","r","k","e","r","/","c","o","m","p","u","t","e","/",
      "M","a","r","k","e","r","C","U","D","A">>
STR_backward == <<"b","a","c","k","w","a","r","d">>
STR_forward == <<"f","o","r","w","a","r","d">>
STR_good == <<"g","o","o","d">>
STR_bad == <<"b","a","d">>

\* str.endswith(suffix)
EndsWith(s, suffix) ==
    /\ Len(s) >= Len(suffix)
    /\ SubSeq(s, Len(s) - Len(suffix) + 1, Len(s)) = suffix

\* str.rfind(c): the 0-based index of the last c in s, -1 when there is none
RFind(s, c) ==
    LET hits == {i \in 1..Len(s) : s[i] = c}
    IN  IF hits = {} THEN -1
        ELSE (CHOOSE i \in hits : \A j \in hits : j <= i) - 1

\* s[:n], n possibly negative
SliceTo(s, n) ==
    LET stop == IF n < 0 THEN (IF Len(s) + n < 0 THEN 0 ELSE Len(s) + n)
                ELSE (IF n > Len(s) THEN Len(s) ELSE n)
    IN  SubSeq(s, 1, stop)

\* str.split(c): the pieces of s between the occurrences of c
RECURSIVE SplitFrom(_, _, _, _)
SplitFrom(s, c, i, cur) ==
    IF i > Len(s) THEN <<cur>>
    ELSE IF s[i] = c THEN <<cur>> \o SplitFrom(s, c, i + 1, <<>>)
    ELSE SplitFrom(s, c, i + 1, Append(cur, s[i]))

Split(s, c) == SplitFrom(s, c, 1, <<>>)

(***************************************************************************)
(* _is_forwardBackwardInfo: the trace events that _getPipeLineInfo hands   *)
(* to _allocate_forwardBackwardInfo.                                       *)
(***************************************************************************)
MarkerTags ==
    {STR_marker_forward_B, STR_marker_forward_E,
     STR_marker_backward_B, STR_marker_backward_E}

\* items with "args" a dict holding "detail_info" are records with has_detail
\* TRUE; an event without detail_info carries has_detail FALSE.
is_forwardBackwardInfo(items) ==
    IF items.name = STR_MarkerCUDA
    THEN IF items.has_detail
         THEN IF \/ items.detail_info = STR_marker_forward_B
                 \/ items.detail_info = STR_marker_forward_E
                 \/ items.detail_info = STR_marker_backward_B
                 \/ items.detail_info = STR_marker_backward_E
              THEN TRUE
              ELSE FALSE
         ELSE FALSE
    ELSE FALSE

\* The trace event of _getPipeLineInfo for a marker (lines 122-130).
TraceEvent(ts, dur, detail, pid, tid) ==
    [name |-> STR_MarkerCUDA, ts |-> ts, dur |-> dur, pid |-> pid, tid |-> tid,
     has_detail |-> TRUE, detail_info |-> detail, args_name |-> STR_MarkerCUDA,
     cname |-> <<>>]

(***************************************************************************)
(* _allocate_forwardBackwardInfo.  The dicts of restList are objects:      *)
(* heap[id] is the dict, restList and newList hold ids, lastEle is an id   *)
(* or 0 for the empty dict {}.                                             *)
(***************************************************************************)
\* list.sort(key=ts): stable, by insertion of each id after the ids whose
\* key is not larger.
RECURSIVE SortIds(_, _)
SortIds(ids, key) ==
    IF ids = <<>> THEN <<>>
    ELSE LET n == Len(ids)
             front == SortIds(SubSeq(ids, 1, n - 1), key)
             x == ids[n]
             k == Cardinality({j \in 1..Len(front) : key[front[j]] <= key[x]})
         IN  SubSeq(front, 1, k) \o <<x>> \o SubSeq(front, k + 1, Len(front))

cmp_ele(items) == items.ts

\* The frame of a call: restList as passed.
FBEnter(restList, pid, tid) ==
    [pc |-> "sort", heap |-> restList,
     restList |-> [j \in 1..Len(restList) |-> j],
     newList |-> <<>>, lastEle |-> 0, i |-> 1, pid |-> pid, tid |-> tid]

\* FBSortStep leaving restList in the order it was passed.
FBSortStep_NoSort(f) ==
    [f EXCEPT !.pc = "loop"]

\* line 75
FBSortStep(f) ==
    [f EXCEPT !.pc = "loop",
              !.restList = SortIds(f.restList,
                                   [j \in 1..Len(f.heap) |-> cmp_ele(f.heap[j])])]

\* FBClose with the duration taken from the end marker alone.
FBClose_DurFromEnd(f, items) ==
    LET last == f.heap[f.lastEle]
        dur == items.ts
        name0 == last.detail_info
        name1 == SliceTo(name0, RFind(name0, "_"))
        parts == Split(name1, "_")
        withDur == [f EXCEPT !.heap[f.lastEle].dur = dur]
    IN  IF Len(parts) < 2
        THEN [withDur EXCEPT !.pc = "IndexError"]
        ELSE LET name == parts[2]
                 cname == IF name = STR_backward THEN STR_good ELSE STR_bad
             IN  [withDur EXCEPT
                    !.heap[f.lastEle].name = name,
                    !.heap[f.lastEle].detail_info = name,
                    !.heap[f.lastEle].args_name = name,
                    !.heap[f.lastEle].cname = cname,
                    !.heap[f.lastEle].tid = f.tid,
                    !.heap[f.lastEle].pid = f.pid,
                    !.newList = Append(f.newList, f.lastEle),
                    !.i = f.i + 1]

\* lines 84-99: the end marker `items` closes the pending lastEle
FBClose(f, items) ==
    LET last == f.heap[f.lastEle]
        dur == items.ts - last.ts
        name0 == last.detail_info
        name1 == SliceTo(name0, RFind(name0, "_"))
        parts == Split(name1, "_")
        withDur == [f EXCEPT !.heap[f.lastEle].dur = dur]
    IN  IF Len(parts) < 2
        THEN [withDur EXCEPT !.pc = "IndexError"]
        ELSE LET name == parts[2]
                 cname == IF name = STR_backward THEN STR_good ELSE STR_bad
             IN  [withDur EXCEPT
                    !.heap[f.lastEle].name = name,
                    !.heap[f.lastEle].detail_info = name,
                    !.heap[f.lastEle].args_name = name,
                    !.heap[f.lastEle].cname = cname,
                    !.heap[f.lastEle].tid = f.tid,
                    !.heap[f.lastEle].pid = f.pid,
                    !.newList = Append(f.newList, f.lastEle),
                    !.i = f.i + 1]

\* FBLoopStep keeping the first pending begin instead of the last one.
FBLoopStep_FirstBeginWins(f) ==
    LET id == f.restList[f.i]
        items == f.heap[id]
    IN  IF EndsWith(items.detail_info, <<"E">>)
        THEN IF f.lastEle = 0
             THEN [f EXCEPT !.i = f.i + 1]
             ELSE FBClose(f, items)
        ELSE IF f.lastEle = 0 \/ f.heap[f.lastEle].cname # <<>>
             THEN [f EXCEPT !.lastEle = id, !.i = f.i + 1]
             ELSE [f EXCEPT !.i = f.i + 1]

\* FBLoopStep without the test `if not lastEle`: lastEle["ts"] of {} raises.
FBLoopStep_NoPendingTest(f) ==
    LET id == f.restList[f.i]
        items == f.heap[id]
    IN  IF EndsWith(items.detail_info, <<"E">>)
        THEN IF f.lastEle = 0
             THEN [f EXCEPT !.pc = "KeyError"]
             ELSE FBClose(f, items)
        ELSE [f EXCEPT !.lastEle = id, !.i = f.i + 1]

\* lines 79-101: one iteration of the loop
FBLoopStep(f) ==
    LET id == f.restList[f.i]
        items == f.heap[id]
    IN  IF EndsWith(items.detail_info, <<"E">>)
        THEN IF f.lastEle = 0
             THEN [f EXCEPT !.i = f.i + 1]
             ELSE FBClose(f, items)
        ELSE [f EXCEPT !.lastEle = id, !.i = f.i + 1]

\* line 103
FBReturnStep(f) == [f EXCEPT !.pc = "return"]

FBResult(f) == [j \in 1..Len(f.newList) |-> f.heap[f.newList[j]]]

\* The whole call: the list returned, or the exception raised.
RECURSIVE FBRunFrom(_)
FBRunFrom(f) ==
    IF f.pc = "sort" THEN FBRunFrom(FBSortStep(f))
    ELSE IF f.pc = "loop"
    THEN IF f.i <= Len(f.restList) THEN FBRunFrom(FBLoopStep(f))
         ELSE FBRunFrom(FBReturnStep(f))
    ELSE IF f.pc = "return" THEN [ok |-> TRUE, value |-> FBResult(f)]
    ELSE [ok |-> FALSE, value |-> <<>>]

allocate_forwardBackwardInfo(restList, pid, tid) ==
    FBRunFrom(FBEnter(restList, pid, tid))

(***************************************************************************)
(* SpecFB: one call of _allocate_forwardBackwardInfo on a list of marker   *)
(* events in any order, as _getPipeLineInfo builds them for one rank.      *)
(***************************************************************************)
MaxMarkers == 4
MaxTs == 1
FBRank == 1

FBItems ==
    {TraceEvent(ts, 0, tag, 0, FBRank) : ts \in 0..MaxTs, tag \in MarkerTags}

RECURSIVE SeqsUpTo(_, _)
SeqsUpTo(S, n) ==
    IF n = 0 THEN {<<>>}
    ELSE LET shorter == SeqsUpTo(S, n - 1)
         IN  shorter \cup {Append(q, x) : q \in {r \in shorter : Len(r) = n - 1},
                                          x \in S}

FBInit ==
    /\ fbArg \in SeqsUpTo(FBItems, MaxMarkers)
    /\ fb = FBEnter(fbArg, 0, FBRank)
    /\ pipe = Idle
    /\ pids = Idle
    /\ mem = Idle
    /\ op = Idle

FBSort ==
    /\ fb.pc = "sort"
    /\ fb' = FBSortStep(fb)
    /\ UNCHANGED <<fbArg, pipe, pids, mem, op>>

FBLoop ==
    /\ fb.pc = "loop"
    /\ fb.i <= Len(fb.restList)
    /\ fb' = FBLoopStep(fb)
    /\ UNCHANGED <<fbArg, pipe, pids, mem, op>>

FBReturn ==
    /\ fb.pc = "loop"
    /\ fb.i > Len(fb.restList)
    /\ fb' = FBReturnStep(fb)
    /\ UNCHANGED <<fbArg, pipe, pids, mem, op>>

FBNext == FBSort \/ FBLoop \/ FBReturn

SpecFB == FBInit /\ [][FBNext]_vars

(***************************************************************************)
(* _allocate_pids.  devices and mem_devices are the two dicts, keyed by    *)
(* <<k, device_id, category>>; metadata is chrome_trace._metadata, one     *)
(* entry per emit_pid(label, pid).  A label f"{lineNum:02}_{k}:..." is the *)
(* record of the values formatted into it.                                 *)
(***************************************************************************)
\* The capacities reserved for the trace categories before the op trace.
PIPELINEINFO_TRACE_NUM == 1
DCGMINFO_TRACE_NUM == 2
NETINFO_TRACE_NUM == 2

\* initPid without the capacity reserved for the network info.
OpTraceInitPid_NoNet == PIPELINEINFO_TRACE_NUM + DCGMINFO_TRACE_NUM

\* lines 439-441
OpTraceInitPid == PIPELINEINFO_TRACE_NUM + DCGMINFO_TRACE_NUM + NETINFO_TRACE_NUM

\* ChromeTraceFormatter.emit_pid(name, pid)
emit_pid(metadata, label, pid) ==
    Append(metadata, [name |-> "process_name", ph |-> "M", pid |-> pid,
                      label |-> label])

\* lines 200-206
PidsEnter(gpuId, initPid) ==
    [pc |-> "ranks", gpuId |-> gpuId, initPid |-> initPid,
     initLineNum |-> initPid + 1, lineNum |-> initPid + 1,
     devices |-> <<>>, mem_devices |-> <<>>, metadata |-> <<>>]

\* pid = initPid; initPid = initPid + 1; devices[key] = pid; emit_pid; lineNum + 1
PidsAssignDevice(f, key, text) ==
    [f EXCEPT !.initPid = f.initPid + 1,
              !.devices = (key :> f.initPid) @@ f.devices,
              !.metadata = emit_pid(f.metadata,
                  [line |-> f.lineNum, k |-> key[1], text |-> text, dev |-> key[2]],
                  f.initPid),
              !.lineNum = f.lineNum + 1]

\* PidsAssignMem without `initPid = initPid + 1`.
PidsAssignMem_NoIncrement(f, key, text) ==
    [f EXCEPT !.mem_devices = (key :> f.initPid) @@ f.mem_devices,
              !.metadata = emit_pid(f.metadata,
                  [line |-> f.lineNum, k |-> key[1], text |-> text, dev |-> key[2]],
                  f.initPid),
              !.lineNum = f.lineNum + 1]

\* the same for mem_devices
PidsAssignMem(f, key, text) ==
    [f EXCEPT !.initPid = f.initPid + 1,
              !.mem_devices = (key :> f.initPid) @@ f.mem_devices,
              !.metadata = emit_pid(f.metadata,
                  [line |-> f.lineNum, k |-> key[1], text |-> text, dev |-> key[2]],
                  f.initPid),
              !.lineNum = f.lineNum + 1]

\* line 208
PidsRankStep(f) == [f EXCEPT !.lineNum = f.initLineNum]

\* lines 210-238: one event of profile_pb.events
PidsEventStep(f, k, event) ==
    IF event.type = "CPU"
    THEN IF <<k, event.device_id, "CPU">> \notin DOMAIN f.devices
         THEN IF event.device_id = -1
              THEN PidsAssignDevice(f, <<k, event.device_id, "CPU">>, "cuda_api")
              ELSE PidsAssignDevice(f, <<k, event.device_id, "CPU">>, "cpu:block")
         ELSE f
    ELSE IF event.type = "GPUKernel"
    THEN IF <<k, event.device_id, "GPUKernel">> \notin DOMAIN f.devices
         THEN IF f.gpuId = event.device_id
              THEN PidsAssignDevice(f, <<k, event.device_id, "GPUKernel">>, "gpu")
              ELSE f
         ELSE f
    ELSE f

\* lines 243-283: the branch on mevent.place
PidsMemPlaceStep(f, k, mevent) ==
    IF mevent.place = "CUDAPlace"
    THEN IF <<k, mevent.device_id, "GPU">> \notin DOMAIN f.mem_devices
         THEN IF f.gpuId = mevent.device_id
              THEN PidsAssignMem(f, <<k, mevent.device_id, "GPU">>,
                                 "memory usage on gpu")
              ELSE f
         ELSE f
    ELSE IF mevent.place = "CPUPlace"
    THEN IF <<k, mevent.device_id, "CPU">> \notin DOMAIN f.mem_devices
         THEN PidsAssignMem(f, <<k, mevent.device_id, "CPU">>,
                            "memory usage on cpu")
         ELSE f
    ELSE IF mevent.place = "CUDAPinnedPlace"
    THEN IF <<k, mevent.device_id, "CUDAPinnedPlace">> \notin DOMAIN f.mem_devices
         THEN IF f.gpuId = mevent.device_id
              THEN PidsAssignMem(f, <<k, mevent.device_id, "CUDAPinnedPlace">>,
                                 "memory usage on cudapinnedplace")
              ELSE f
         ELSE f
    ELSE f

\* lines 284-312: the three keys of device 0
PidsCatchAll(f, k, category, text) ==
    IF <<k, 0, category>> \notin DOMAIN f.mem_devices
    THEN PidsAssignMem(f, <<k, 0, category>>, text)
    ELSE f

\* lines 243-312: one mevent of profile_pb.mem_events
PidsMemEventStep(f, k, mevent) ==
    PidsCatchAll(
        PidsCatchAll(
            PidsCatchAll(PidsMemPlaceStep(f, k, mevent),
                         k, "CPU", "memory usage on cpu"),
            k, "GPU", "memory usage on gpu"),
        k, "CUDAPinnedPlace", "memory usage on cudapinnedplace")

\* line 314
PidsReturnStep(f) == [f EXCEPT !.pc = "return"]

\* The part of _allocate_pids for one item of profile_dict (lines 208-313).
RECURSIVE PidsEventsFrom(_, _, _, _)
PidsEventsFrom(f, k, events, j) ==
    IF j > Len(events) THEN f
    ELSE PidsEventsFrom(PidsEventStep(f, k, events[j]), k, events, j + 1)

RECURSIVE PidsMemEventsFrom(_, _, _, _)
PidsMemEventsFrom(f, k, mem_events, j) ==
    IF j > Len(mem_events) THEN f
    ELSE PidsMemEventsFrom(PidsMemEventStep(f, k, mem_events[j]), k, mem_events, j + 1)

PidsItem(f, k, profile_pb) ==
    LET g == PidsEventsFrom(PidsRankStep(f), k, profile_pb.events, 1)
    IN  IF ~profile_pb.has_mem_events THEN g
        ELSE PidsMemEventsFrom(g, k, profile_pb.mem_events, 1)

RECURSIVE PidsItemsFrom(_, _, _)
PidsItemsFrom(f, profile_dict, r) ==
    IF r > Len(profile_dict) THEN PidsReturnStep(f)
    ELSE PidsItemsFrom(PidsItem(f, profile_dict[r].k, profile_dict[r].pb),
                       profile_dict, r + 1)

\* The whole call; profile_dict is the sequence of its items [k, pb].
allocate_pids(profile_dict, gpuId, initPid) ==
    PidsItemsFrom(PidsEnter(gpuId, initPid), profile_dict, 1)

(***************************************************************************)
(* Rank keys: _parseTask names a profile f"trainerRank.{rankId:03}", and   *)
(* the passes read the rank back as int(k.split(".")[-1]).                 *)
(***************************************************************************)
DigitChars == <<"0", "1", "2", "3", "4", "5", "6", "7", "8", "9">>

RECURSIVE Decimal(_)
Decimal(n) ==
    IF n < 10 THEN <<DigitChars[n + 1]>>
    ELSE Append(Decimal(n \div 10), DigitChars[(n % 10) + 1])

RECURSIVE ZeroPad(_, _)
ZeroPad(digits, width) ==
    IF Len(digits) >= width THEN digits ELSE ZeroPad(<<"0">> \o digits, width)

\* f"trainerRank.{rankId:03}"
RankKey(rankId) ==
    <<"t","r","a","i","n","e","r","R","a","n","k",".">> \o ZeroPad(Decimal(rankId), 3)

DigitValue(c) == (CHOOSE d \in 1..10 : DigitChars[d] = c) - 1

RECURSIVE ParseInt(_)
ParseInt(digits) ==
    IF Len(digits) = 1 THEN DigitValue(digits[1])
    ELSE 10 * ParseInt(SubSeq(digits, 1, Len(digits) - 1))
            + DigitValue(digits[Len(digits)])

\* int(k.split(".")[-1])
RankOfKey(k) ==
    LET parts == Split(k, ".") IN ParseInt(parts[Len(parts)])

(***************************************************************************)
(* _allocate_memory_event.  events is chrome_trace._events, one entry per  *)
(* emit_counter; mem_list holds the crt_info dicts; i is 0-based as in the *)
(* code.                                                                   *)
(***************************************************************************)
\* "minTimeStamp" of the reader's arguments
MinTimeStamp == 0

\* FileReader._align_ts
align_ts(ts) == ts - MinTimeStamp

\* ChromeTraceFormatter.emit_counter(category, name, pid, timestamp, counter, value)
emit_counter(events, pid, timestamp, value) ==
    Append(events, [name |-> "Memory", ph |-> "C", pid |-> pid,
                    ts |-> timestamp, value |-> value])

place_to_str(place) ==
    IF place = "CPUPlace" THEN "CPU"
    ELSE IF place = "CUDAPlace" THEN "GPU"
    ELSE IF place = "CUDAPinnedPlace" THEN "CUDAPinnedPlace"
    ELSE "UnDefine"

\* lines 354-361: cfg holds _gpuPerTrainer and _displaySize
MemEnter(profile_dict, mem_devices, gpuId, cfg, hasMemEventSchema) ==
    [pc |-> IF hasMemEventSchema THEN "ranks" ELSE "return_None",
     profile_dict |-> profile_dict, mem_devices |-> mem_devices,
     gpuId |-> gpuId, cfg |-> cfg,
     r |-> 0, j |-> 1, mem_list |-> <<>>, end_profiler |-> 0,
     i |-> 0, total_size |-> 0, events |-> <<>>]

\* lines 362-372: the next item of profile_dict.  trainerId is the true
\* quotient rankId / gpuPerTrainer, so trainerId >= displaySize is
\* rankId >= displaySize * gpuPerTrainer.
MemRankStep(f) ==
    LET item == f.profile_dict[f.r + 1]
        rankId == RankOfKey(item.k)
    IN  IF rankId >= f.cfg.displaySize * f.cfg.gpuPerTrainer
        THEN [f EXCEPT !.r = f.r + 1]
        ELSE IF ~item.pb.has_mem_events
        THEN [f EXCEPT !.r = f.r + 1, !.pc = "AttributeError"]
        ELSE [f EXCEPT !.r = f.r + 1, !.pc = "mevents", !.j = 1,
                       !.mem_list = <<>>, !.end_profiler = 0]

\* MemEventStep with the free entered with the size of the allocation.
MemEventStep_FreeAdds(f) ==
    LET k == f.profile_dict[f.r].k
        mevent == f.profile_dict[f.r].pb.mem_events[f.j]
        place == place_to_str(mevent.place)
        key == <<k, mevent.device_id, place>>
    IN  IF (mevent.place = "CUDAPlace" \/ mevent.place = "CUDAPinnedPlace")
           /\ mevent.device_id # f.gpuId
        THEN [f EXCEPT !.j = f.j + 1]
        ELSE IF key \notin DOMAIN f.mem_devices
        THEN [f EXCEPT !.pc = "KeyError"]
        ELSE LET pid == f.mem_devices[key]
                 info(time, size) ==
                     [time |-> time, size |-> size, place |-> place, pid |-> pid,
                      thread_id |-> mevent.thread_id,
                      device_id |-> mevent.device_id]
             IN  [f EXCEPT
                    !.mem_list = f.mem_list
                        \o <<info(mevent.start_ns, mevent.bytes),
                             info(mevent.end_ns, mevent.bytes)>>,
                    !.end_profiler = IF mevent.end_ns > f.end_profiler
                                     THEN mevent.end_ns ELSE f.end_profiler,
                    !.j = f.j + 1]

\* MemEventStep passing over the events of another device on CUDAPlace only.
MemEventStep_PinnedNotExcluded(f) ==
    LET k == f.profile_dict[f.r].k
        mevent == f.profile_dict[f.r].pb.mem_events[f.j]
        place == place_to_str(mevent.place)
        key == <<k, mevent.device_id, place>>
    IN  IF mevent.place = "CUDAPlace"
           /\ mevent.device_id # f.gpuId
        THEN [f EXCEPT !.j = f.j + 1]
        ELSE IF key \notin DOMAIN f.mem_devices
        THEN [f EXCEPT !.pc = "KeyError"]
        ELSE LET pid == f.mem_devices[key]
                 info(time, size) ==
                     [time |-> time, size |-> size, place |-> place, pid |-> pid,
                      thread_id |-> mevent.thread_id,
                      device_id |-> mevent.device_id]
             IN  [f EXCEPT
                    !.mem_list = f.mem_list
                        \o <<info(mevent.start_ns, mevent.bytes),
                             info(mevent.end_ns, 0 - mevent.bytes)>>,
                    !.end_profiler = IF mevent.end_ns > f.end_profiler
                                     THEN mevent.end_ns ELSE f.end_profiler,
                    !.j = f.j + 1]

\* lines 372-401: one mevent of profile_pb.mem_events
MemEventStep(f) ==
    LET k == f.profile_dict[f.r].k
        mevent == f.profile_dict[f.r].pb.mem_events[f.j]
        place == place_to_str(mevent.place)
        key == <<k, mevent.device_id, place>>
    IN  IF (mevent.place = "CUDAPlace" \/ mevent.place = "CUDAPinnedPlace")
           /\ mevent.device_id # f.gpuId
        THEN [f EXCEPT !.j = f.j + 1]
        ELSE IF key \notin DOMAIN f.mem_devices
        THEN [f EXCEPT !.pc = "KeyError"]
        ELSE LET pid == f.mem_devices[key]
                 info(time, size) ==
                     [time |-> time, size |-> size, place |-> place, pid |-> pid,
                      thread_id |-> mevent.thread_id,
                      device_id |-> mevent.device_id]
             IN  [f EXCEPT
                    !.mem_list = f.mem_list
                        \o <<info(mevent.start_ns, mevent.bytes),
                             info(mevent.end_ns, 0 - mevent.bytes)>>,
                    !.end_profiler = IF mevent.end_ns > f.end_profiler
                                     THEN mevent.end_ns ELSE f.end_profiler,
                    !.j = f.j + 1]

\* MemSortStep sorting by descending time.
MemSortStep_Descending(f) ==
    LET n == Len(f.mem_list)
        order == SortIds([x \in 1..n |-> x],
                         [x \in 1..n |-> 0 - f.mem_list[x].time])
    IN  [f EXCEPT !.mem_list = [x \in 1..n |-> f.mem_list[order[x]]],
                  !.i = 0, !.total_size = 0, !.pc = "emit"]

\* lines 402-404: mem_list.sort(key=time), stable
MemSortStep(f) ==
    LET n == Len(f.mem_list)
        order == SortIds([x \in 1..n |-> x], [x \in 1..n |-> f.mem_list[x].time])
    IN  [f EXCEPT !.mem_list = [x \in 1..n |-> f.mem_list[order[x]]],
                  !.i = 0, !.total_size = 0, !.pc = "emit"]

\* lines 407-412: the inner while, from i with total_size
RECURSIVE MemFold(_, _, _)
MemFold(mem_list, i, total_size) ==
    IF i < Len(mem_list) - 1 /\ mem_list[i + 1].time = mem_list[i + 2].time
    THEN MemFold(mem_list, i + 1, total_size + mem_list[i + 2].size)
    ELSE [i |-> i, total_size |-> total_size]

\* MemEmitStep without the inner while: one sample per entry of mem_list.
MemEmitStep_NoFold(f) ==
    LET total == f.total_size + f.mem_list[f.i + 1].size
    IN  [f EXCEPT !.total_size = total,
                  !.events = emit_counter(f.events, f.mem_list[f.i + 1].pid,
                                          align_ts(f.mem_list[f.i + 1].time), total),
                  !.i = f.i + 1]

\* lines 405-422: one iteration of the outer while
MemEmitStep(f) ==
    LET folded == MemFold(f.mem_list, f.i, f.total_size + f.mem_list[f.i + 1].size)
    IN  [f EXCEPT !.total_size = folded.total_size,
                  !.events = emit_counter(f.events, f.mem_list[folded.i + 1].pid,
                                          align_ts(f.mem_list[folded.i + 1].time),
                                          folded.total_size),
                  !.i = folded.i + 1]

\* the outer while ends: back to line 362
MemRankDoneStep(f) == [f EXCEPT !.pc = "ranks"]

\* line 423
MemReturnStep(f) == [f EXCEPT !.pc = "return"]

(***************************************************************************)
(* _getPipeLineInfo and getPipeLineInfo.  A file is the record of what     *)
(* reading it gives: its rank id (getRankId), whether ParseFromString      *)
(* raises on it, and the events of its profile.  A dict is the sequence of *)
(* its items [k, v] in insertion order; str(n) is Decimal(n).              *)
(***************************************************************************)
\* d[k] = v
DictSet(d, k, v) ==
    IF \E x \in 1..Len(d) : d[x].k = k
    THEN [x \in 1..Len(d) |-> IF d[x].k = k THEN [k |-> k, v |-> v] ELSE d[x]]
    ELSE Append(d, [k |-> k, v |-> v])

DictHas(d, k) == \E x \in 1..Len(d) : d[x].k = k
DictGet(d, k) == d[CHOOSE x \in 1..Len(d) : d[x].k = k].v

\* lines 115-133: the trace events of the markers of a profile
RECURSIVE TraceEventList(_, _, _)
TraceEventList(events, tid, j) ==
    IF j > Len(events) THEN <<>>
    ELSE LET event == events[j]
             traceEvent ==
                 [name |-> event.name, ts |-> align_ts(event.start_ns),
                  dur |-> event.end_ns - event.start_ns, pid |-> 0, tid |-> tid,
                  has_detail |-> event.detail_info # <<>>,
                  detail_info |-> event.detail_info, args_name |-> event.name,
                  cname |-> <<>>]
         IN  (IF is_forwardBackwardInfo(traceEvent) THEN <<traceEvent>> ELSE <<>>)
                 \o TraceEventList(events, tid, j + 1)

\* lines 108-139: one profile of profileList, in the worker w
PipeFileStep(w, file) ==
    IF file.corrupt
    THEN [w EXCEPT !.pc = "raised"]
    ELSE LET pipeLineList ==
                 allocate_forwardBackwardInfo(
                     TraceEventList(file.events, file.rankId, 1), 0, file.rankId)
         IN  IF ~pipeLineList.ok
             THEN [w EXCEPT !.pc = "raised"]
             ELSE [w EXCEPT !.res = DictSet(w.res, Decimal(file.rankId),
                                            pipeLineList.value),
                            !.at = w.at + 1]

\* FileReader._splitTaskListForMultiProcess: contiguous chunks of near-equal
\* size, at most n of them.
RECURSIVE ChunksFrom(_, _, _)
ChunksFrom(ls, size, start) ==
    IF start > Len(ls) THEN <<>>
    ELSE <<SubSeq(ls, start, IF start + size - 1 > Len(ls) THEN Len(ls)
                             ELSE start + size - 1)>>
             \o ChunksFrom(ls, size, start + size)

splitTaskListForMultiProcess(ls, n) ==
    IF n <= 0 \/ Len(ls) = 0 THEN <<>>
    ELSE IF n >= Len(ls) THEN [x \in 1..Len(ls) |-> <<ls[x]>>]
    ELSE ChunksFrom(ls, (Len(ls) + n - 1) \div n, 1)

\* lines 183-187
MetaInfo ==
    [name |-> "process_name", ph |-> "M", pid |-> 0,
     label |-> [num |-> PIPELINEINFO_TRACE_NUM, text |-> "pipeLineInfo"]]

\* PipeMergeFrom assigning the list of a rank to its group instead of
\* extending the group's list with it.
RECURSIVE PipeMergeFrom_Overwrite(_, _, _, _)
PipeMergeFrom_Overwrite(pipeLineInfo, items, gpuPerTrainer, x) ==
    IF x > Len(items) THEN pipeLineInfo
    ELSE LET rankId == ParseInt(items[x].k)
             gpuId == rankId % gpuPerTrainer
             key == Decimal(gpuId)
             withKey == IF ~DictHas(pipeLineInfo, key)
                        THEN DictSet(pipeLineInfo, key, <<MetaInfo>>)
                        ELSE pipeLineInfo
         IN  PipeMergeFrom_Overwrite(
                 DictSet(withKey, key, <<MetaInfo>> \o items[x].v),
                 items, gpuPerTrainer, x + 1)

\* lines 190-195: the items of one result taken off the queue
RECURSIVE PipeMergeFrom(_, _, _, _)
PipeMergeFrom(pipeLineInfo, items, gpuPerTrainer, x) ==
    IF x > Len(items) THEN pipeLineInfo
    ELSE LET rankId == ParseInt(items[x].k)
             gpuId == rankId % gpuPerTrainer
             key == Decimal(gpuId)
             withKey == IF ~DictHas(pipeLineInfo, key)
                        THEN DictSet(pipeLineInfo, key, <<MetaInfo>>)
                        ELSE pipeLineInfo
         IN  PipeMergeFrom(
                 DictSet(withKey, key, DictGet(withKey, key) \o items[x].v),
                 items, gpuPerTrainer, x + 1)

\* lines 147-158
PipeEnter(fileFist, processNum, gpuPerTrainer) ==
    LET taskList == splitTaskListForMultiProcess(fileFist, processNum)
    IN  [pc |-> "start", fileFist |-> fileFist, gpuPerTrainer |-> gpuPerTrainer,
         taskList |-> taskList, t |-> 1, pidList |-> <<>>, q |-> <<>>,
         pipeLineInfo |-> <<>>,
         workers |-> [w \in 1..Len(taskList) |->
                         [pc |-> "new", at |-> 1, res |-> <<>>]]]

(***************************************************************************)
(* Properties of _allocate_forwardBackwardInfo (SpecFB).                   *)
(***************************************************************************)
IsBeginTag(tag) == tag \in {STR_marker_forward_B, STR_marker_backward_B}
IsEndTag(tag) == tag \in {STR_marker_forward_E, STR_marker_backward_E}
PhaseOf(tag) ==
    IF tag \in {STR_marker_forward_B, STR_marker_forward_E}
    THEN STR_forward ELSE STR_backward

\* The input in timestamp order, as the sort left it (defined once sorted).
FBSorted == [j \in 1..Len(fbArg) |-> fbArg[fb.restList[j]]]
FBRunning == fb.pc # "sort"
FBRaised == fb.pc \notin {"sort", "loop", "return"}
\* The sorted input is k pairs: a begin immediately followed by an end.
FBPairs ==
    /\ Len(fbArg) % 2 = 0
    /\ \A j \in 1..Len(fbArg) :
          IF j % 2 = 1 THEN IsBeginTag(FBSorted[j].detail_info)
          ELSE IsEndTag(FBSorted[j].detail_info)

\* C1: when the input, sorted by timestamp, is k pairs begin(ts0), end(ts1),
\* the call raises nothing and returns exactly k spans, the j-th one starting
\* at the j-th begin with dur = ts1 - ts0, name the phase token of the begin
\* tag, and cname good for backward and bad otherwise.
C1_PairsGiveSpans ==
    (FBRunning /\ FBPairs) =>
        /\ ~FBRaised
        /\ fb.pc = "return" =>
              LET res == FBResult(fb)
                  S == FBSorted
              IN  /\ Len(res) = Len(fbArg) \div 2
                  /\ \A j \in 1..Len(res) :
                        /\ fb.newList[j] = fb.restList[2 * j - 1]
                        /\ res[j].ts = S[2 * j - 1].ts
                        /\ res[j].dur = S[2 * j].ts - S[2 * j - 1].ts
                        /\ res[j].name = PhaseOf(S[2 * j - 1].detail_info)
                        /\ res[j].cname =
                              (IF res[j].name = STR_backward
                               THEN STR_good ELSE STR_bad)

\* Two pairs given out of order, one of each phase, the second one lasting.
C1_Witness ==
    /\ fb.pc = "return"
    /\ FBPairs
    /\ Len(fbArg) = 4
    /\ fb.restList # <<1, 2, 3, 4>>
    /\ \E j \in 1..2 : FBResult(fb)[j].cname = STR_good /\ FBResult(fb)[j].dur = 1
    /\ \E j \in 1..2 : FBResult(fb)[j].cname = STR_bad

\* C2: of two begins that are consecutive in timestamp order the first one
\* never becomes a span, and an end right after them gives exactly one span,
\* which starts at the second begin and lasts from it to that end.
C2_LastBeginWins ==
    FBRunning =>
        \A p \in 1..(Len(fbArg) - 1) :
            (IsBeginTag(FBSorted[p].detail_info)
             /\ IsBeginTag(FBSorted[p + 1].detail_info)) =>
                /\ \A j \in 1..Len(fb.newList) : fb.newList[j] # fb.restList[p]
                /\ (/\ p + 2 <= Len(fbArg)
                    /\ IsEndTag(FBSorted[p + 2].detail_info)
                    /\ fb.i > p + 2
                    /\ ~FBRaised) =>
                       /\ Cardinality({j \in 1..Len(fb.newList) :
                              fb.newList[j] \in {fb.restList[p], fb.restList[p + 1]}}) = 1
                       /\ \E j \in 1..Len(fb.newList) :
                              /\ fb.newList[j] = fb.restList[p + 1]
                              /\ FBResult(fb)[j].ts = FBSorted[p + 1].ts
                              /\ FBResult(fb)[j].dur =
                                    FBSorted[p + 2].ts - FBSorted[p + 1].ts

\* begin@0, begin@1, end@1 has returned its one span.
C2_Witness ==
    /\ fb.pc = "return"
    /\ Len(fbArg) = 3
    /\ IsBeginTag(FBSorted[1].detail_info) /\ FBSorted[1].ts = 0
    /\ IsBeginTag(FBSorted[2].detail_info) /\ FBSorted[2].ts = 1
    /\ IsEndTag(FBSorted[3].detail_info)
    /\ Len(fb.newList) = 1

NumBegins == Cardinality({j \in 1..Len(fbArg) : IsBeginTag(fbArg[j].detail_info)})
NumEnds == Cardinality({j \in 1..Len(fbArg) : IsEndTag(fbArg[j].detail_info)})

\* C3: an end with no begin before it in timestamp order gives no span and
\* raises nothing; a begin with no end after it gives no span; and there are
\* never more spans than begins, nor more spans than ends.
C3_DanglingDropped ==
    /\ Len(fb.newList) <= NumBegins
    /\ Len(fb.newList) <= NumEnds
    /\ FBRunning =>
          /\ (\A j \in 1..Len(fbArg) :
                 j < fb.i => IsEndTag(FBSorted[j].detail_info)) =>
                    (fb.newList = <<>> /\ ~FBRaised)
          /\ \A p \in 1..Len(fbArg) :
                (/\ IsBeginTag(FBSorted[p].detail_info)
                 /\ \A q \in (p + 1)..Len(fbArg) :
                       ~IsEndTag(FBSorted[q].detail_info)) =>
                    \A j \in 1..Len(fb.newList) : fb.newList[j] # fb.restList[p]

\* end, begin, end, begin: the first end and the last begin are dangling.
C3_Witness ==
    /\ fb.pc = "return"
    /\ Len(fbArg) = 4
    /\ IsEndTag(FBSorted[1].detail_info)
    /\ IsBeginTag(FBSorted[2].detail_info)
    /\ IsEndTag(FBSorted[3].detail_info)
    /\ IsBeginTag(FBSorted[4].detail_info)
    /\ Len(fb.newList) = 1

\* The sorted input is begin, end, end.
FBBeginEndEnd ==
    /\ Len(fbArg) = 3
    /\ IsBeginTag(FBSorted[1].detail_info)
    /\ IsEndTag(FBSorted[2].detail_info)
    /\ IsEndTag(FBSorted[3].detail_info)

\* C16: the pending begin is cleared once its span is emitted: no begin
\* marker is in the result more than once, and on an input that is begin,
\* end, end in timestamp order the second end raises nothing and the call
\* returns exactly one span.
C16_PendingCleared ==
    FBRunning =>
        /\ \A a, b \in 1..Len(fb.newList) :
              a # b => fb.newList[a] # fb.newList[b]
        /\ FBBeginEndEnd =>
              /\ ~FBRaised
              /\ fb.pc = "return" => Len(fb.newList) = 1

\* The position in timestamp order of the marker with heap id `id`, and of
\* the first end marker after position p: the one that closed the begin at p.
FBPosOf(id) == CHOOSE p \in 1..Len(fbArg) : fb.restList[p] = id
FBClosingEnd(p) ==
    CHOOSE q \in (p + 1)..Len(fbArg) :
        /\ IsEndTag(FBSorted[q].detail_info)
        /\ \A x \in (p + 1)..(q - 1) : ~IsEndTag(FBSorted[x].detail_info)

\* C17: a span is emitted only when the pending begin and the end that
\* closes it are of the same phase (forward with forward, backward with
\* backward); a begin of one phase followed by an end of the other gives no
\* span.
C17_SamePhaseOnly ==
    FBRunning =>
        \A j \in 1..Len(fb.newList) :
            LET p == FBPosOf(fb.newList[j])
            IN  PhaseOf(FBSorted[p].detail_info)
                    = PhaseOf(FBSorted[FBClosingEnd(p)].detail_info)

\* The spans of the list returned, in its order.
FBSpans == FBResult(fb)

\* C21: the list returned is ordered by start timestamp (non-decreasing),
\* every span has a non-negative duration, and each span ends no later than
\* the next one starts, whatever the order of the marker events passed.
C21_SpansOrderedDisjoint ==
    fb.pc = "return" =>
        /\ \A j \in 1..Len(FBSpans) : FBSpans[j].dur >= 0
        /\ \A j \in 1..(Len(FBSpans) - 1) :
              /\ FBSpans[j].ts <= FBSpans[j + 1].ts
              /\ FBSpans[j].ts + FBSpans[j].dur <= FBSpans[j + 1].ts

\* Two spans are returned, the first of positive duration, for an input
\* that was not passed in timestamp order.
C21_Witness ==
    /\ fb.pc = "return"
    /\ Len(FBSpans) = 2
    /\ FBSpans[1].dur > 0
    /\ \E j \in 1..(Len(fbArg) - 1) : fbArg[j].ts > fbArg[j + 1].ts

(***************************************************************************)
(* SpecPids: one call of _allocate_pids(profile_dict, gpuId, initPid) as   *)
(* _getOPTraceInfoByGpuId makes it.  The loops read profile_dict as they   *)
(* go: each step takes the next rank, event or mem event of the input     *)
(* (ranks in the order of the dict; n counts the events read so far).      *)
(***************************************************************************)
MaxPidRanks == 2
MaxPidEvents == 4

GpuIds == {0, 1}
PidRankIds == 0..(MaxPidRanks - 1)
PidEvents ==
    [type : {"CPU"}, device_id : {-1, 0}]
        \cup [type : {"GPUKernel"}, device_id : {0, 1}]
PidMemEvents ==
    [place : {"CUDAPlace", "CPUPlace", "CUDAPinnedPlace"}, device_id : {0, 1}]

PidsInit ==
    /\ \E g \in GpuIds :
          pids = [at |-> "ranks", f |-> PidsEnter(g, OpTraceInitPid),
                  k |-> -1, n |-> 0]
    /\ fb = Idle
    /\ fbArg = <<>>
    /\ pipe = Idle
    /\ mem = Idle
    /\ op = Idle

\* line 207: the next item of profile_dict
PidsRank ==
    /\ pids.at = "ranks"
    /\ pids.k + 1 \in PidRankIds
    /\ pids' = [pids EXCEPT !.at = "events", !.f = PidsRankStep(pids.f),
                            !.k = pids.k + 1]
    /\ UNCHANGED <<fb, fbArg, pipe, mem, op>>

\* lines 209-238: the next event of the rank
PidsEvent ==
    /\ pids.at = "events"
    /\ pids.n < MaxPidEvents
    /\ \E event \in PidEvents :
          pids' = [pids EXCEPT !.f = PidsEventStep(pids.f, pids.k, event),
                               !.n = pids.n + 1]
    /\ UNCHANGED <<fb, fbArg, pipe, mem, op>>

\* line 240: no more events; a profile without mem_events ends the rank
PidsEventsDone ==
    /\ pids.at = "events"
    /\ \E hasMemEvents \in BOOLEAN :
          pids' = [pids EXCEPT !.at = IF hasMemEvents THEN "mem" ELSE "ranks"]
    /\ UNCHANGED <<fb, fbArg, pipe, mem, op>>

\* lines 242-312: the next mem event of the rank
PidsMemEvent ==
    /\ pids.at = "mem"
    /\ pids.n < MaxPidEvents
    /\ \E mevent \in PidMemEvents :
          pids' = [pids EXCEPT !.f = PidsMemEventStep(pids.f, pids.k, mevent),
                               !.n = pids.n + 1]
    /\ UNCHANGED <<fb, fbArg, pipe, mem, op>>

\* line 313: no more mem events
PidsMemDone ==
    /\ pids.at = "mem"
    /\ pids' = [pids EXCEPT !.at = "ranks"]
    /\ UNCHANGED <<fb, fbArg, pipe, mem, op>>

\* line 314: profile_dict is exhausted
PidsReturn ==
    /\ pids.at = "ranks"
    /\ pids' = [pids EXCEPT !.at = "return", !.f = PidsReturnStep(pids.f)]
    /\ UNCHANGED <<fb, fbArg, pipe, mem, op>>

PidsNext ==
    PidsRank \/ PidsEvent \/ PidsEventsDone \/ PidsMemEvent \/ PidsMemDone
        \/ PidsReturn

SpecPids == PidsInit /\ [][PidsNext]_vars

(***************************************************************************)
(* Properties of _allocate_pids (SpecPids).                                *)
(***************************************************************************)
\* Every assigned key with its table: <<table, key, id>>.
PidsAssigned(f) ==
    {<<"devices", key, f.devices[key]>> : key \in DOMAIN f.devices}
        \cup {<<"mem_devices", key, f.mem_devices[key]>> : key \in DOMAIN f.mem_devices}

PidsInjective(f) ==
    \A a, b \in PidsAssigned(f) : a[3] = b[3] => a = b

\* The ids handed out so far are initPid, initPid + 1, ... in the order of the
\* assignments, one per assigned key, and the next id is above all of them.
PidsInOrder(f) ==
    /\ \A j \in 1..Len(f.metadata) : f.metadata[j].pid = OpTraceInitPid + j - 1
    /\ f.initPid = OpTraceInitPid + Len(f.metadata)
    /\ Cardinality(PidsAssigned(f)) = Len(f.metadata)
    /\ \A a \in PidsAssigned(f) :
          \E j \in 1..Len(f.metadata) :
              /\ f.metadata[j].pid = a[3]
              /\ f.metadata[j].label.k = a[2][1]
              /\ f.metadata[j].label.dev = a[2][2]

\* A step keeps the id of every key assigned before it, and gives a key it
\* assigns the next id, above every id assigned before.
PidsStable(f, g) ==
    /\ PidsAssigned(f) \subseteq PidsAssigned(g)
    /\ \A a \in PidsAssigned(g) \ PidsAssigned(f) :
          \A b \in PidsAssigned(f) : b[3] < a[3]

\* C4: in _allocate_pids every assigned key (rank, device, category) of the
\* two tables holds one id, which no later event changes; no two keys of
\* either table share an id; and the ids are initPid, initPid + 1, ... in the
\* order in which the keys were first seen, none used twice.
C4_PidsMemoizedInjective ==
    /\ [](PidsInjective(pids.f) /\ PidsInOrder(pids.f))
    /\ [][PidsStable(pids.f, pids'.f)]_vars

\* Two ranks done, keys in both tables, and of the four events read one
\* assigned nothing (its key was seen before, or is of another device).
C4_Witness ==
    /\ pids.at = "return"
    /\ pids.k = 1
    /\ pids.n = 4
    /\ <<0, 0, "CPU">> \in DOMAIN pids.f.devices
    /\ \E d \in {0, 1} : <<1, d, "GPUKernel">> \in DOMAIN pids.f.devices
    /\ <<1, 1, "CPU">> \in DOMAIN pids.f.mem_devices
    /\ Cardinality(PidsAssigned(pids.f)) = 6

\* The ids in the two tables.
PidsIds(f) == {a[3] : a \in PidsAssigned(f)}

\* C11: the track ids _allocate_pids assigns when called as in
\* _getOPTraceInfoByGpuId are a contiguous range that starts at
\* PIPELINEINFO_TRACE_NUM + DCGMINFO_TRACE_NUM + NETINFO_TRACE_NUM: none is
\* below that sum, so none is the id 0 of the pipeline info or lies in the
\* ranges reserved for the categories before the op trace.
C11_OpTraceIdsAboveReserved ==
    LET base == PIPELINEINFO_TRACE_NUM + DCGMINFO_TRACE_NUM + NETINFO_TRACE_NUM
        ids == PidsIds(pids.f)
    IN  /\ ids = base..(base + Cardinality(ids) - 1)
        /\ \A id \in ids : id >= base /\ id # MetaInfo.pid

\* The call has returned with ids in both tables, the first of them the sum.
C11_Witness ==
    /\ pids.at = "return"
    /\ DOMAIN pids.f.devices # {}
    /\ DOMAIN pids.f.mem_devices # {}
    /\ Cardinality(PidsIds(pids.f)) >= 5
    /\ PIPELINEINFO_TRACE_NUM + DCGMINFO_TRACE_NUM + NETINFO_TRACE_NUM
           \in PidsIds(pids.f)

\* The ranks _allocate_pids is through with: all up to pids.k once the call
\* is between two items of profile_dict or has returned.
PidsRanksDone == IF pids.at \in {"ranks", "return"} THEN 0..pids.k ELSE {}

\* C12: once _allocate_pids has processed a rank k, mem_devices holds the
\* three catch-all keys (k, 0, CPU), (k, 0, GPU) and (k, 0, CUDAPinnedPlace),
\* whatever the mem events of the rank are, also when it has none.
C12_CatchAllTracksPerRank ==
    \A k \in PidsRanksDone :
        \A category \in {"CPU", "GPU", "CUDAPinnedPlace"} :
            <<k, 0, category>> \in DOMAIN pids.f.mem_devices

(***************************************************************************)
(* SpecMem: one call of _allocate_memory_event(profile_dict, mem_devices,  *)
(* gpuId) as _getOPTraceInfoByGpuId makes it: on the profiles of the ranks *)
(* it admits, with the table _allocate_pids built for them.                *)
(***************************************************************************)
MaxMemEvents == 3

MemGpuId == 1
\* the reader's arguments gpuPerTrainer, groupSize, displaySize
MemCfg == [gpuPerTrainer |-> 2, groupSize |-> 1, displaySize |-> 2]
\* the rank ids of the files of the group
MemFileLists == {<<0, 1, 2, 3>>, <<0, 1, 4, 5>>}
\* <<start_ns, end_ns>>
MemLifetimes == {<<0, 2>>, <<1, 2>>}
MemShapes ==
    [place : {"CUDAPlace", "CPUPlace", "CUDAPinnedPlace"}, device_id : {0, 1},
     life : MemLifetimes]

RECURSIVE Pow2(_)
Pow2(n) == IF n = 0 THEN 1 ELSE 2 * Pow2(n - 1)

\* The mem event of shape sh that is the p-th of the input: its size is
\* 2^(p-1) bytes, so that a sum of sizes tells which events are in it.
MemEventOf(sh, p) ==
    [place |-> sh.place, device_id |-> sh.device_id, thread_id |-> 0,
     start_ns |-> sh.life[1], end_ns |-> sh.life[2], bytes |-> Pow2(p - 1)]

\* lines 428-436: (rankId / gpuPerTrainer) % groupSize < displaySize with the
\* true quotient is rankId % (gpuPerTrainer * groupSize) < displaySize * gpuPerTrainer.
Admitted(rankId, gpuId, cfg) ==
    /\ rankId % cfg.gpuPerTrainer = gpuId
    /\ rankId % (cfg.gpuPerTrainer * cfg.groupSize) < cfg.displaySize * cfg.gpuPerTrainer

\* newFileList of _getOPTraceInfoByGpuId
NewFileList(fileList, gpuId, cfg) ==
    SelectSeq(fileList, LAMBDA rankId : Admitted(rankId, gpuId, cfg))

\* _parseTask: the profiles of the admitted files; shapes[c+1..] go to the
\* second one.
MemProfileDict(ranks, shapes, c) ==
    [r \in 1..Len(ranks) |->
        [k |-> RankKey(ranks[r]),
         pb |-> [events |-> <<>>, has_mem_events |-> TRUE,
                 mem_events |->
                    IF r = 1 THEN [p \in 1..c |-> MemEventOf(shapes[p], p)]
                    ELSE IF r = 2
                    THEN [p \in 1..(Len(shapes) - c) |->
                             MemEventOf(shapes[c + p], c + p)]
                    ELSE <<>>]]]

MemInit ==
    /\ \E fileList \in MemFileLists, shapes \in SeqsUpTo(MemShapes, MaxMemEvents) :
          \E c \in 0..Len(shapes) :
              LET dict == MemProfileDict(NewFileList(fileList, MemGpuId, MemCfg),
                                         shapes, c)
              IN  mem = MemEnter(dict,
                                 allocate_pids(dict, MemGpuId, OpTraceInitPid).mem_devices,
                                 MemGpuId, MemCfg, TRUE)
    /\ fb = Idle
    /\ fbArg = <<>>
    /\ pipe = Idle
    /\ pids = Idle
    /\ op = Idle

MemRank ==
    /\ mem.pc = "ranks"
    /\ mem.r < Len(mem.profile_dict)
    /\ mem' = MemRankStep(mem)
    /\ UNCHANGED <<fb, fbArg, pipe, pids, op>>

MemEvent ==
    /\ mem.pc = "mevents"
    /\ mem.j <= Len(mem.profile_dict[mem.r].pb.mem_events)
    /\ mem' = MemEventStep(mem)
    /\ UNCHANGED <<fb, fbArg, pipe, pids, op>>

MemSort ==
    /\ mem.pc = "mevents"
    /\ mem.j > Len(mem.profile_dict[mem.r].pb.mem_events)
    /\ mem' = MemSortStep(mem)
    /\ UNCHANGED <<fb, fbArg, pipe, pids, op>>

MemEmit ==
    /\ mem.pc = "emit"
    /\ mem.i < Len(mem.mem_list)
    /\ mem' = MemEmitStep(mem)
    /\ UNCHANGED <<fb, fbArg, pipe, pids, op>>

MemRankDone ==
    /\ mem.pc = "emit"
    /\ mem.i >= Len(mem.mem_list)
    /\ mem' = MemRankDoneStep(mem)
    /\ UNCHANGED <<fb, fbArg, pipe, pids, op>>

MemReturn ==
    /\ mem.pc = "ranks"
    /\ mem.r >= Len(mem.profile_dict)
    /\ mem' = MemReturnStep(mem)
    /\ UNCHANGED <<fb, fbArg, pipe, pids, op>>

MemNext == MemRank \/ MemEvent \/ MemSort \/ MemEmit \/ MemRankDone \/ MemReturn

SpecMem == MemInit /\ [][MemNext]_vars

(***************************************************************************)
(* Properties of _allocate_memory_event (SpecMem).                         *)
(***************************************************************************)
\* The mem events of a profile whose deltas the builder includes.
MemIncluded(mevent, gpuId) ==
    mevent.place = "CPUPlace" \/ mevent.device_id = gpuId

\* The sum over the included mem events of a profile of +bytes for a start
\* and -bytes for an end at a time in T.
RECURSIVE DeltaSumFrom(_, _, _, _)
DeltaSumFrom(mem_events, gpuId, T, j) ==
    IF j > Len(mem_events) THEN 0
    ELSE LET m == mem_events[j]
             here == IF MemIncluded(m, gpuId)
                     THEN (IF m.start_ns \in T THEN m.bytes ELSE 0)
                              - (IF m.end_ns \in T THEN m.bytes ELSE 0)
                     ELSE 0
         IN  here + DeltaSumFrom(mem_events, gpuId, T, j + 1)

DeltaSum(pb, T) == DeltaSumFrom(pb.mem_events, mem.gpuId, T, 1)

\* The timestamps of the deltas of a profile.
DeltaTimes(pb) ==
    UNION {{pb.mem_events[j].start_ns, pb.mem_events[j].end_ns} :
              j \in {x \in 1..Len(pb.mem_events) :
                        MemIncluded(pb.mem_events[x], mem.gpuId)}}

\* The samples emitted on the tracks of rank key k, in the order emitted.
SamplesOf(k) ==
    SelectSeq(mem.events,
              LAMBDA e : \E key \in DOMAIN mem.mem_devices :
                            key[1] = k /\ mem.mem_devices[key] = e.pid)

\* The items of profile_dict the call is through with, looked at whenever it
\* is between two items or has returned, and those of them it did not pass
\* over (line 367).
MemFinished == IF mem.pc \in {"ranks", "return"} THEN 1..mem.r ELSE {}
MemProcessed(r) ==
    RankOfKey(mem.profile_dict[r].k) < mem.cfg.displaySize * mem.cfg.gpuPerTrainer

\* C5: for every rank the builder processes, the deltas that share a
\* timestamp are folded into one sample: there is exactly one sample per
\* distinct delta timestamp of the rank, each sample adds to the one before
\* it the sum of all deltas at its timestamp (so +50@t, +20@t after a total
\* T give one sample T+70 at t), and on every track the timestamps of the
\* samples are strictly increasing.
C5_OneSamplePerTimestamp ==
    /\ \A r \in MemFinished :
          LET pb == mem.profile_dict[r].pb
              S == SamplesOf(mem.profile_dict[r].k)
          IN  IF MemProcessed(r)
              THEN /\ Len(S) = Cardinality(DeltaTimes(pb))
                   /\ \A x \in 1..Len(S) :
                         /\ \E t \in DeltaTimes(pb) :
                               /\ S[x].ts = align_ts(t)
                               /\ S[x].value
                                     = (IF x = 1 THEN 0 ELSE S[x - 1].value)
                                          + DeltaSum(pb, {t})
                         /\ x > 1 => S[x - 1].ts < S[x].ts
              ELSE S = <<>>
    /\ \A a, b \in 1..Len(mem.events) :
          (a < b /\ mem.events[a].pid = mem.events[b].pid)
              => mem.events[a].ts < mem.events[b].ts

\* One rank with three included events: the first alone at 0, the other two
\* starting together at 1 on different tracks: samples 1, 1+2+4, 0.
C5_Witness ==
    /\ mem.pc = "return"
    /\ \E r \in 1..Len(mem.profile_dict) :
          LET S == SamplesOf(mem.profile_dict[r].k)
          IN  /\ Len(mem.profile_dict[r].pb.mem_events) = 3
              /\ Len(S) = 3
              /\ S[1].value = 1 /\ S[2].value = 7 /\ S[3].value = 0
              /\ S[1].pid # S[2].pid

\* C6: every included mem event counts +bytes from its start_ns and -bytes
\* from its end_ns: the value of the sample at timestamp t is the sum of all
\* deltas of the rank up to t, the total starting at 0 for each rank and
\* never reset within it; one event of b bytes over [t0, t1], t0 < t1, gives
\* exactly (t0, b), (t1, 0).
C6_PrefixSum ==
    \A r \in MemFinished :
        MemProcessed(r) =>
            LET pb == mem.profile_dict[r].pb
                S == SamplesOf(mem.profile_dict[r].k)
            IN  /\ \A x \in 1..Len(S) :
                      \E t \in DeltaTimes(pb) :
                          /\ S[x].ts = align_ts(t)
                          /\ S[x].value = DeltaSum(pb, 0..t)
                /\ (Len(pb.mem_events) = 1 /\ MemIncluded(pb.mem_events[1], mem.gpuId)
                    /\ pb.mem_events[1].start_ns < pb.mem_events[1].end_ns) =>
                      /\ Len(S) = 2
                      /\ S[1].ts = align_ts(pb.mem_events[1].start_ns)
                      /\ S[1].value = pb.mem_events[1].bytes
                      /\ S[2].ts = align_ts(pb.mem_events[1].end_ns)
                      /\ S[2].value = 0

\* Two ranks processed: the first with one event, the second, whose total
\* starts at 0 again, with two.
C6_Witness ==
    /\ mem.pc = "return"
    /\ Len(mem.profile_dict) = 2
    /\ MemProcessed(2)
    /\ Len(mem.profile_dict[1].pb.mem_events) = 1
    /\ Len(SamplesOf(mem.profile_dict[1].k)) = 2
    /\ Len(SamplesOf(mem.profile_dict[2].k)) = 3
    /\ SamplesOf(mem.profile_dict[2].k)[2].value = 6

\* The sum, over the included mem events of the profile k that are assigned
\* to the track pid, of +bytes for a start and -bytes for an end at a time
\* in T.
RECURSIVE TrackDeltaSumFrom(_, _, _, _, _)
TrackDeltaSumFrom(k, mem_events, pid, T, j) ==
    IF j > Len(mem_events) THEN 0
    ELSE LET m == mem_events[j]
             key == <<k, m.device_id, place_to_str(m.place)>>
             here == IF /\ MemIncluded(m, mem.gpuId)
                        /\ key \in DOMAIN mem.mem_devices
                        /\ mem.mem_devices[key] = pid
                     THEN (IF m.start_ns \in T THEN m.bytes ELSE 0)
                              - (IF m.end_ns \in T THEN m.bytes ELSE 0)
                     ELSE 0
         IN  here + TrackDeltaSumFrom(k, mem_events, pid, T, j + 1)

\* C19: every counter sample carries the running total of its own track:
\* its value is the net outstanding bytes, up to its timestamp, of the mem
\* events assigned to the same track id, without the bytes of the events of
\* the other tracks of the rank.
C19_PerTrackTotal ==
    \A r \in MemFinished :
        MemProcessed(r) =>
            LET pb == mem.profile_dict[r].pb
                k == mem.profile_dict[r].k
                S == SamplesOf(k)
            IN  \A x \in 1..Len(S) :
                    \E t \in DeltaTimes(pb) :
                        /\ S[x].ts = align_ts(t)
                        /\ S[x].value
                              = TrackDeltaSumFrom(k, pb.mem_events, S[x].pid, 0..t, 1)

\* The rank whose mem_list is complete: the one being emitted, or the one
\* just done, if the call did not pass over it.
MemListComplete ==
    /\ mem.r >= 1
    /\ MemProcessed(mem.r)
    /\ mem.pc \in {"emit", "ranks", "return"}

\* The entries of mem_list that come from the mem event m (the sizes of the
\* events of the input are all different).
MemEntriesOf(m) ==
    {x \in 1..Len(mem.mem_list) :
        mem.mem_list[x].size \in {m.bytes, 0 - m.bytes}}

\* C20: on the table _allocate_pids built for the same profiles and gpuId,
\* _allocate_memory_event never fails on a missing key; in every rank it
\* does not pass over, a mem event on CUDAPlace or CUDAPinnedPlace of another
\* device than gpuId contributes no delta, and every other mem event, so
\* every CPUPlace event, contributes its two deltas, +bytes at start_ns and
\* -bytes at end_ns.
C20_ExcludedOrResolved ==
    /\ mem.pc \notin {"KeyError", "AttributeError"}
    /\ MemListComplete =>
          LET mem_events == mem.profile_dict[mem.r].pb.mem_events
          IN  \A j \in 1..Len(mem_events) :
                  LET m == mem_events[j]
                      L == mem.mem_list
                  IN  IF m.place \in {"CUDAPlace", "CUDAPinnedPlace"}
                         /\ m.device_id # mem.gpuId
                      THEN MemEntriesOf(m) = {}
                      ELSE /\ Cardinality(MemEntriesOf(m)) = 2
                           /\ \E x, y \in MemEntriesOf(m) :
                                 /\ L[x].time = m.start_ns /\ L[x].size = m.bytes
                                 /\ L[y].time = m.end_ns /\ L[y].size = 0 - m.bytes
                                 /\ L[x].pid = L[y].pid
                                 /\ L[x].pid =
                                       mem.mem_devices[<<mem.profile_dict[mem.r].k,
                                                         m.device_id,
                                                         place_to_str(m.place)>>]

\* A rank with a CPUPlace event of another device, which is entered, a
\* CUDAPlace event of another device, which is not, and a CUDAPinnedPlace
\* event of gpuId, which is.
C20_Witness ==
    /\ MemListComplete
    /\ mem.pc = "ranks"
    /\ Len(mem.mem_list) = 4
    /\ LET mem_events == mem.profile_dict[mem.r].pb.mem_events
       IN  /\ Len(mem_events) = 3
           /\ \E j \in 1..3 : /\ mem_events[j].place = "CPUPlace"
                              /\ mem_events[j].device_id # mem.gpuId
           /\ \E j \in 1..3 : /\ mem_events[j].place = "CUDAPlace"
                              /\ mem_events[j].device_id # mem.gpuId
           /\ \E j \in 1..3 : /\ mem_events[j].place = "CUDAPinnedPlace"
                              /\ mem_events[j].device_id = mem.gpuId

\* Every mem event of the profile has start_ns <= end_ns and bytes >= 0.
MemBalanced(pb) ==
    \A j \in 1..Len(pb.mem_events) :
        /\ pb.mem_events[j].start_ns <= pb.mem_events[j].end_ns
        /\ pb.mem_events[j].bytes >= 0

\* C23: for a rank whose mem events all have start_ns <= end_ns and
\* bytes >= 0, no sample emitted has a negative value, and once the rank is
\* done the last sample emitted for it has value 0.
C23_TotalNonNegativeEndsAtZero ==
    \A r \in 1..mem.r :
        MemBalanced(mem.profile_dict[r].pb) =>
            LET S == SamplesOf(mem.profile_dict[r].k)
            IN  /\ \A x \in 1..Len(S) : S[x].value >= 0
                /\ (r \in MemFinished /\ S # <<>>) => S[Len(S)].value = 0

\* A rank is done whose events overlap in time: the total rose twice, to 1
\* and to 3, before it came back to 0.
C23_Witness ==
    /\ mem.pc \in {"ranks", "return"}
    /\ \E r \in 1..mem.r :
          LET S == SamplesOf(mem.profile_dict[r].k)
          IN  /\ MemBalanced(mem.profile_dict[r].pb)
              /\ Len(S) = 3
              /\ S[1].value = 1 /\ S[2].value = 3 /\ S[3].value = 0

\* C24: the rank selections of the two passes agree: every rank of
\* profile_dict, whose file _getOPTraceInfoByGpuId admitted, is processed by
\* _allocate_memory_event and not passed over at line 367, so that once the
\* call is through with a rank that has an included mem event with an
\* allocated track, the rank has counter samples.
C24_PassesAgree ==
    \A r \in MemFinished :
        LET k == mem.profile_dict[r].k
            pb == mem.profile_dict[r].pb
        IN  Admitted(RankOfKey(k), mem.gpuId, mem.cfg) =>
                /\ MemProcessed(r)
                /\ (\E j \in 1..Len(pb.mem_events) :
                       /\ MemIncluded(pb.mem_events[j], mem.gpuId)
                       /\ <<k, pb.mem_events[j].device_id,
                            place_to_str(pb.mem_events[j].place)>>
                              \in DOMAIN mem.mem_devices)
                     => SamplesOf(k) # <<>>

(***************************************************************************)
(* SpecPipe: one call of getPipeLineInfo(groupId, processNum): the         *)
(* orchestrator starts one process per chunk, joins them in turn, then     *)
(* takes one result per process off the queue; the processes run           *)
(* _getPipeLineInfo on their chunks, interleaved in any way.               *)
(***************************************************************************)
MaxPipeFiles == 3

STR_conv2d == <<"c","o","n","v","2","d">>
\* [name, detail_info, start_ns, end_ns] of the events of a profile
PipeEventLists ==
    {<<[name |-> STR_MarkerCUDA, detail_info |-> STR_marker_forward_B,
        start_ns |-> 0, end_ns |-> 0],
       [name |-> STR_MarkerCUDA, detail_info |-> STR_marker_forward_E,
        start_ns |-> 10, end_ns |-> 10]>>,
     <<[name |-> STR_conv2d, detail_info |-> <<>>, start_ns |-> 3, end_ns |-> 4],
       [name |-> STR_MarkerCUDA, detail_info |-> STR_marker_backward_E,
        start_ns |-> 5, end_ns |-> 5],
       [name |-> STR_MarkerCUDA, detail_info |-> STR_marker_backward_B,
        start_ns |-> 2, end_ns |-> 2]>>}
PipeFileKinds ==
    [corrupt : {FALSE}, events : PipeEventLists]
        \cup [corrupt : {TRUE}, events : {<<>>}]
PipeProcessNums == {1, 2, 3}
PipeGpuPerTrainer == {1, 2}

PipeInit ==
    /\ \E kinds \in SeqsUpTo(PipeFileKinds, MaxPipeFiles) \ {<<>>},
          processNum \in PipeProcessNums, gpuPerTrainer \in PipeGpuPerTrainer :
          pipe = PipeEnter(
                    [x \in 1..Len(kinds) |->
                        [rankId |-> x - 1, corrupt |-> kinds[x].corrupt,
                         events |-> kinds[x].events]],
                    processNum, gpuPerTrainer)
    /\ fb = Idle
    /\ fbArg = <<>>
    /\ pids = Idle
    /\ mem = Idle
    /\ op = Idle

PipeTerminated(w) == pipe.workers[w].pc \in {"exited", "raised"}

\* lines 159-172: start the process of the next chunk
PipeStart ==
    /\ pipe.pc = "start"
    /\ pipe.t <= Len(pipe.taskList)
    /\ pipe' = [pipe EXCEPT !.workers[pipe.t].pc = "running",
                            !.pidList = Append(pipe.pidList, pipe.t),
                            !.t = pipe.t + 1]
    /\ UNCHANGED <<fb, fbArg, pids, mem, op>>

\* line 174: all processes are started
PipeStarted ==
    /\ pipe.pc = "start"
    /\ pipe.t > Len(pipe.taskList)
    /\ pipe' = [pipe EXCEPT !.pc = "join", !.t = 1]
    /\ UNCHANGED <<fb, fbArg, pids, mem, op>>

\* lines 107-139, in the process w: the next profile of its chunk
PipeWorkerFile(w) ==
    /\ pipe.workers[w].pc = "running"
    /\ pipe.workers[w].at <= Len(pipe.taskList[w])
    /\ pipe' = [pipe EXCEPT !.workers[w] =
                   PipeFileStep(pipe.workers[w],
                                pipe.taskList[w][pipe.workers[w].at])]
    /\ UNCHANGED <<fb, fbArg, pids, mem, op>>

\* lines 141-142, in the process w: q.put(res)
PipeWorkerPut(w) ==
    /\ pipe.workers[w].pc = "running"
    /\ pipe.workers[w].at > Len(pipe.taskList[w])
    /\ pipe' = [pipe EXCEPT !.q = Append(pipe.q, pipe.workers[w].res),
                            !.workers[w].pc = "put"]
    /\ UNCHANGED <<fb, fbArg, pids, mem, op>>

\* line 144, in the process w: the target returns and the process exits
PipeWorkerExit(w) ==
    /\ pipe.workers[w].pc = "put"
    /\ pipe' = [pipe EXCEPT !.workers[w].pc = "exited"]
    /\ UNCHANGED <<fb, fbArg, pids, mem, op>>

\* PipeJoin with a join that does not wait for the process.
PipeJoin_NoWait ==
    /\ pipe.pc = "join"
    /\ pipe.t <= Len(pipe.taskList)
    /\ pipe' = [pipe EXCEPT
                  !.pidList = SelectSeq(pipe.pidList, LAMBDA p : p # pipe.t),
                  !.t = pipe.t + 1]
    /\ UNCHANGED <<fb, fbArg, pids, mem, op>>

\* lines 174-179: t.join() returns once the process has terminated
PipeJoin ==
    /\ pipe.pc = "join"
    /\ pipe.t <= Len(pipe.taskList)
    /\ PipeTerminated(pipe.t)
    /\ pipe' = [pipe EXCEPT
                  !.pidList = SelectSeq(pipe.pidList, LAMBDA p : p # pipe.t),
                  !.t = pipe.t + 1]
    /\ UNCHANGED <<fb, fbArg, pids, mem, op>>

\* lines 181-189: all processes are joined
PipeJoined ==
    /\ pipe.pc = "join"
    /\ pipe.t > Len(pipe.taskList)
    /\ pipe' = [pipe EXCEPT !.pc = "get", !.t = 1]
    /\ UNCHANGED <<fb, fbArg, pids, mem, op>>

\* lines 189-195: q.get() returns once the queue holds a result
PipeGet ==
    /\ pipe.pc = "get"
    /\ pipe.t <= Len(pipe.taskList)
    /\ pipe.q # <<>>
    /\ pipe' = [pipe EXCEPT
                  !.pipeLineInfo = PipeMergeFrom(pipe.pipeLineInfo, Head(pipe.q),
                                                 pipe.gpuPerTrainer, 1),
                  !.q = Tail(pipe.q),
                  !.t = pipe.t + 1]
    /\ UNCHANGED <<fb, fbArg, pids, mem, op>>

\* line 197
PipeReturn ==
    /\ pipe.pc = "get"
    /\ pipe.t > Len(pipe.taskList)
    /\ pipe' = [pipe EXCEPT !.pc = "return"]
    /\ UNCHANGED <<fb, fbArg, pids, mem, op>>

PipeNext ==
    \/ PipeStart
    \/ PipeStarted
    \/ \E w \in 1..Len(pipe.taskList) : PipeWorkerFile(w)
    \/ \E w \in 1..Len(pipe.taskList) : PipeWorkerPut(w)
    \/ \E w \in 1..Len(pipe.taskList) : PipeWorkerExit(w)
    \/ PipeJoin
    \/ PipeJoined
    \/ PipeGet
    \/ PipeReturn

SpecPipe == PipeInit /\ [][PipeNext]_vars

(***************************************************************************)
(* Properties of getPipeLineInfo (SpecPipe).                               *)
(***************************************************************************)
\* The rank ids of the spans of a merged list, in the order of the list
\* (tid is the rank id; the first entry is the metadata entry).
PipeSpanRanks(v) == [x \in 1..(Len(v) - 1) |-> v[x + 1].tid]

\* C7: in the result of getPipeLineInfo the spans of each device group are
\* in ascending order of rank id, whatever the order in which the workers
\* posted their results.
C7_MergedSortedByRank ==
    pipe.pc = "return" =>
        \A g \in 1..Len(pipe.pipeLineInfo) :
            LET ranks == PipeSpanRanks(pipe.pipeLineInfo[g].v)
            IN  \A a, b \in 1..Len(ranks) : a < b => ranks[a] <= ranks[b]

PipeCorrupt == {x \in 1..Len(pipe.fileFist) : pipe.fileFist[x].corrupt}
PipeAllTerminated == \A w \in 1..Len(pipe.taskList) : PipeTerminated(w)

\* The ranks whose spans are in a result on the queue or in the merged
\* output.
PipeRanksInQueue ==
    UNION {{ParseInt(pipe.q[m][x].k) : x \in 1..Len(pipe.q[m])} :
              m \in 1..Len(pipe.q)}
PipeRanksMerged ==
    UNION {{pipe.pipeLineInfo[g].v[x].tid :
               x \in 2..Len(pipe.pipeLineInfo[g].v)} :
              g \in 1..Len(pipe.pipeLineInfo)}

\* C8: when one file fails to parse, the spans of every other rank, of the
\* same chunk or of another one, are not lost: once all workers are through,
\* they are on the queue or in the merged output.
C8_OtherRanksKept ==
    (Cardinality(PipeCorrupt) = 1 /\ PipeAllTerminated) =>
        \A x \in 1..Len(pipe.fileFist) :
            ~pipe.fileFist[x].corrupt =>
                pipe.fileFist[x].rankId \in PipeRanksInQueue \cup PipeRanksMerged

\* C9: getPipeLineInfo does not block for good on the result queue, also
\* when a worker terminates without posting a result: the orchestrator is
\* never at q.get() (lines 189-190) with the queue empty and every worker
\* terminated, where no process is left to post the result it waits for.
C9_NeverBlocked ==
    ~(/\ pipe.pc = "get"
      /\ pipe.t <= Len(pipe.taskList)
      /\ pipe.q = <<>>
      /\ PipeAllTerminated)

\* The results posted so far.
PipePosted ==
    Cardinality({w \in 1..Len(pipe.taskList) :
                    pipe.workers[w].pc \in {"put", "exited"}})

\* C18: the orchestrator takes no result off the queue and merges nothing
\* until every process it started has terminated: before the get loop the
\* queue holds every result posted and the merged output is empty, and in the
\* get loop and after it every worker has terminated.
C18_JoinBarrier ==
    /\ pipe.pc \in {"start", "join"} =>
          /\ Len(pipe.q) = PipePosted
          /\ pipe.pipeLineInfo = <<>>
    /\ pipe.pc \in {"get", "return"} => PipeAllTerminated

\* Three workers have posted and two results are merged.
C18_Witness ==
    /\ pipe.pc = "get"
    /\ Len(pipe.taskList) = 3
    /\ PipePosted = 3
    /\ pipe.t = 3
    /\ Len(pipe.q) = 1
    /\ pipe.pipeLineInfo # <<>>

\* The results taken off the queue so far.
PipeConsumed ==
    IF pipe.pc = "get" THEN pipe.t - 1
    ELSE IF pipe.pc = "return" THEN Len(pipe.taskList)
    ELSE 0
PipeAllSucceeded ==
    \A w \in 1..Len(pipe.taskList) : pipe.workers[w].pc = "exited"
PipeIsMeta(e) == "ph" \in DOMAIN e
\* The spans of rank r in a merged list, in the order of the list, and the
\* spans _allocate_forwardBackwardInfo returns for a file.
PipeOfRank(v, r) == SelectSeq(Tail(v), LAMBDA e : e.tid = r)
PipeSpansOfFile(file) ==
    allocate_forwardBackwardInfo(
        TraceEventList(file.events, file.rankId, 1), 0, file.rankId).value

\* C22: when every worker succeeds (the rank ids of the files are distinct),
\* each worker posts exactly one message and the orchestrator takes one per
\* worker: at any time the messages on the queue and the messages taken are
\* the messages posted, and at the return the queue is empty.  The merged
\* result then has one list per group key, each starting with the metadata
\* entry (pid 0) followed only by spans, and the spans of every rank of the
\* file list are exactly once in the list of the key rankId % gpuPerTrainer
\* and in no other list.
C22_EachRankMergedOnce ==
    /\ Len(pipe.q) + PipeConsumed = PipePosted
    /\ (pipe.pc = "return" /\ PipeAllSucceeded) =>
          /\ pipe.q = <<>>
          /\ PipeConsumed = Len(pipe.taskList)
          /\ PipePosted = Len(pipe.taskList)
          /\ \A a, b \in 1..Len(pipe.pipeLineInfo) :
                a # b => pipe.pipeLineInfo[a].k # pipe.pipeLineInfo[b].k
          /\ \A g \in 1..Len(pipe.pipeLineInfo) :
                LET v == pipe.pipeLineInfo[g].v
                IN  /\ Len(v) >= 1
                    /\ v[1] = MetaInfo
                    /\ v[1].pid = 0
                    /\ \A x \in 2..Len(v) :
                          /\ ~PipeIsMeta(v[x])
                          /\ \E y \in 1..Len(pipe.fileFist) :
                                pipe.fileFist[y].rankId = v[x].tid
          /\ \A y \in 1..Len(pipe.fileFist) :
                LET file == pipe.fileFist[y]
                    key == Decimal(file.rankId % pipe.gpuPerTrainer)
                IN  /\ DictHas(pipe.pipeLineInfo, key)
                    /\ \A g \in 1..Len(pipe.pipeLineInfo) :
                          PipeOfRank(pipe.pipeLineInfo[g].v, file.rankId)
                              = IF pipe.pipeLineInfo[g].k = key
                                THEN PipeSpansOfFile(file)
                                ELSE <<>>

\* Three workers, one file each, have succeeded with two device groups: the
\* ranks 0 and 2 share a group, their results arrived in the other order,
\* and every rank has a span.
C22_Witness ==
    /\ pipe.pc = "return"
    /\ PipeAllSucceeded
    /\ Len(pipe.taskList) = 3
    /\ pipe.gpuPerTrainer = 2
    /\ Len(pipe.pipeLineInfo) = 2
    /\ \E g \in 1..2 :
          PipeSpanRanks(pipe.pipeLineInfo[g].v) = <<2, 0>>
    /\ \E g \in 1..2 :
          PipeSpanRanks(pipe.pipeLineInfo[g].v) = <<1>>

(***************************************************************************)
(* _allocate_events, and _allocate_memory_event run to its end.            *)
(***************************************************************************)
\* ChromeTraceFormatter.emit_region(timestamp, duration, pid, tid, category,
\* name, args)
emit_region(events, timestamp, duration, pid, tid, category, name, args) ==
    Append(events, [ph |-> "X", cat |-> category, name |-> name, pid |-> pid,
                    tid |-> tid, ts |-> timestamp, dur |-> duration,
                    args |-> args])

\* lines 317, 351: the formatter and what the call ends with
EventsEnter == [pc |-> "events", events |-> <<>>]

\* lines 321-350: one event of profile_pb.events of the profile k; the type
\* of an event is CPU or GPUKernel.
EventsEventStep(f, k, event, devices, gpuId, cfg) ==
    LET rankId == RankOfKey(k)
        type == IF event.type = "CPU" THEN "CPU" ELSE "GPUKernel"
        key == <<k, event.device_id, type>>
        args == [name |-> event.name,
                 has_mem_bytes |-> event.memcopy_bytes > 0,
                 mem_bytes |-> IF event.memcopy_bytes > 0
                               THEN event.memcopy_bytes ELSE 0,
                 has_detail_info |-> event.detail_info # "",
                 detail_info |-> event.detail_info]
    IN  IF /\ event.type = "GPUKernel"
           /\ event.device_id # gpuId
           /\ rankId % cfg.gpuPerTrainer # gpuId
        THEN f
        ELSE IF key \notin DOMAIN devices
        THEN [f EXCEPT !.pc = "KeyError"]
        ELSE [f EXCEPT !.events =
                 emit_region(f.events, align_ts(event.start_ns),
                             event.end_ns - event.start_ns, devices[key],
                             event.sub_device_id, "Op", event.name, args)]

RECURSIVE EventsEventsFrom(_, _, _, _, _, _, _)
EventsEventsFrom(f, k, events, j, devices, gpuId, cfg) ==
    IF f.pc # "events" \/ j > Len(events) THEN f
    ELSE EventsEventsFrom(EventsEventStep(f, k, events[j], devices, gpuId, cfg),
                          k, events, j + 1, devices, gpuId, cfg)

RECURSIVE EventsItemsFrom(_, _, _, _, _, _)
EventsItemsFrom(f, profile_dict, r, devices, gpuId, cfg) ==
    IF f.pc # "events" THEN f
    ELSE IF r > Len(profile_dict) THEN [f EXCEPT !.pc = "return"]
    ELSE EventsItemsFrom(
             EventsEventsFrom(f, profile_dict[r].k, profile_dict[r].pb.events,
                              1, devices, gpuId, cfg),
             profile_dict, r + 1, devices, gpuId, cfg)

\* The whole call of _allocate_events.
allocate_events(profile_dict, devices, gpuId, cfg) ==
    EventsItemsFrom(EventsEnter, profile_dict, 1, devices, gpuId, cfg)

\* The next step of _allocate_memory_event from where it is.
MemStep(f) ==
    IF f.pc = "ranks"
    THEN IF f.r < Len(f.profile_dict) THEN MemRankStep(f) ELSE MemReturnStep(f)
    ELSE IF f.pc = "mevents"
    THEN IF f.j <= Len(f.profile_dict[f.r].pb.mem_events)
         THEN MemEventStep(f) ELSE MemSortStep(f)
    ELSE IF f.i < Len(f.mem_list) THEN MemEmitStep(f) ELSE MemRankDoneStep(f)

RECURSIVE MemRunFrom(_)
MemRunFrom(f) ==
    IF f.pc \in {"ranks", "mevents", "emit"} THEN MemRunFrom(MemStep(f)) ELSE f

\* The whole call of _allocate_memory_event.
allocate_memory_event(profile_dict, mem_devices, gpuId, cfg, hasMemEventSchema) ==
    MemRunFrom(MemEnter(profile_dict, mem_devices, gpuId, cfg, hasMemEventSchema))

(***************************************************************************)
(* _getOPTraceInfoByGpuId and getOPTraceInfo.  A worker is the record of   *)
(* where its process is and of its locals; dumped holds the documents the  *)
(* workers have written out, opInfo the value getOPTraceInfo returns.      *)
(***************************************************************************)
\* lines 426-436
OpNewFileList(fileFist, gpuId, cfg) ==
    SelectSeq(fileFist, LAMBDA file : Admitted(file.rankId, gpuId, cfg))

\* _parseTask, lines 41-54, with q None: the profiles of the files under
\* their rank keys, or the error ParseFromString raises on the first file
\* it cannot decode.
RECURSIVE parseTaskFrom(_, _, _)
parseTaskFrom(profile_dict, taskList, x) ==
    IF x > Len(taskList) THEN [ok |-> TRUE, value |-> profile_dict]
    ELSE IF taskList[x].corrupt THEN [ok |-> FALSE, value |-> profile_dict]
    ELSE parseTaskFrom(DictSet(profile_dict, RankKey(taskList[x].rankId),
                               taskList[x].pb),
                       taskList, x + 1)

parseTask(taskList) ==
    LET res == parseTaskFrom(<<>>, taskList, 1)
    IN  [ok |-> res.ok,
         value |-> [x \in 1..Len(res.value) |->
                       [k |-> res.value[x].k, pb |-> res.value[x].v]]]

\* OpBuild with the timeline entries put before the metadata.
OpBuild_EventsFirst(profile_dict, gpuId, cfg, hasMemEventSchema) ==
    LET p == allocate_pids(profile_dict, gpuId, OpTraceInitPid)
        e == allocate_events(profile_dict, p.devices, gpuId, cfg)
        m == allocate_memory_event(profile_dict, p.mem_devices, gpuId, cfg,
                                   hasMemEventSchema)
    IN  IF e.pc # "return" THEN [ok |-> FALSE, value |-> e.pc]
        ELSE IF m.pc # "return"
        THEN [ok |-> FALSE,
              value |-> IF m.pc = "return_None" THEN "AttributeError" ELSE m.pc]
        ELSE [ok |-> TRUE,
              value |-> [traceEvents |-> e.events \o p.metadata \o m.events]]

\* lines 439-453: the three passes and the document put together from them
OpBuild(profile_dict, gpuId, cfg, hasMemEventSchema) ==
    LET p == allocate_pids(profile_dict, gpuId, OpTraceInitPid)
        e == allocate_events(profile_dict, p.devices, gpuId, cfg)
        m == allocate_memory_event(profile_dict, p.mem_devices, gpuId, cfg,
                                   hasMemEventSchema)
    IN  IF e.pc # "return" THEN [ok |-> FALSE, value |-> e.pc]
        ELSE IF m.pc # "return"
        THEN [ok |-> FALSE,
              value |-> IF m.pc = "return_None" THEN "AttributeError" ELSE m.pc]
        ELSE [ok |-> TRUE,
              value |-> [traceEvents |-> p.metadata \o e.events \o m.events]]

\* lines 459-462
OpEnter(fileFist, cfg, hasMemEventSchema) ==
    [pc |-> "start", fileFist |-> fileFist, cfg |-> cfg,
     hasMemEventSchema |-> hasMemEventSchema,
     gpuId |-> 0, t |-> 1, pidList |-> <<>>,
     workers |-> [w \in 1..cfg.gpuPerTrainer |->
                     [pc |-> "new", gpuId |-> w - 1, profile_dict |-> <<>>,
                      trace |-> <<>>, error |-> ""]],
     dumped |-> <<>>, opInfo |-> <<>>]

(***************************************************************************)
(* SpecOp: one call of getOPTraceInfo(groupId): the orchestrator starts    *)
(* one process per gpuId and joins them in turn; the processes run         *)
(* _getOPTraceInfoByGpuId, interleaved in any way.                         *)
(***************************************************************************)
MaxOpFiles == 3

\* the reader's arguments gpuPerTrainer, groupSize, displaySize
OpCfgs ==
    [gpuPerTrainer : {1, 2}, groupSize : {1, 2}, displaySize : {1}]

\* The profiles of the files: a CPU op with a CPU allocation, a kernel on
\* device 1 with an allocation on device 1, a memcopy without mem events,
\* a CPU op of a profile that has no mem_events section.
OpProfiles ==
    {[events |-> <<[type |-> "CPU", device_id |-> 0, sub_device_id |-> 0,
                    name |-> "conv2d", start_ns |-> 0, end_ns |-> 2,
                    memcopy_bytes |-> 0, detail_info |-> ""]>>,
      has_mem_events |-> TRUE,
      mem_events |-> <<[place |-> "CPUPlace", device_id |-> 0, thread_id |-> 0,
                        start_ns |-> 0, end_ns |-> 2, bytes |-> 4]>>],
     [events |-> <<[type |-> "GPUKernel", device_id |-> 1, sub_device_id |-> 0,
                    name |-> "relu", start_ns |-> 1, end_ns |-> 3,
                    memcopy_bytes |-> 0, detail_info |-> "x"]>>,
      has_mem_events |-> TRUE,
      mem_events |-> <<[place |-> "CUDAPlace", device_id |-> 1, thread_id |-> 0,
                        start_ns |-> 1, end_ns |-> 3, bytes |-> 8]>>],
     [events |-> <<[type |-> "CPU", device_id |-> -1, sub_device_id |-> 0,
                    name |-> "cudaMemcpy", start_ns |-> 0, end_ns |-> 1,
                    memcopy_bytes |-> 16, detail_info |-> ""]>>,
      has_mem_events |-> TRUE,
      mem_events |-> <<>>],
     [events |-> <<[type |-> "CPU", device_id |-> 0, sub_device_id |-> 0,
                    name |-> "matmul", start_ns |-> 2, end_ns |-> 3,
                    memcopy_bytes |-> 0, detail_info |-> ""]>>,
      has_mem_events |-> FALSE,
      mem_events |-> <<>>]}
OpFileKinds ==
    [corrupt : {FALSE}, pb : OpProfiles]
        \cup [corrupt : {TRUE},
              pb : {[events |-> <<>>, has_mem_events |-> TRUE, mem_events |-> <<>>]}]

OpInit ==
    /\ \E kinds \in SeqsUpTo(OpFileKinds, MaxOpFiles) \ {<<>>}, cfg \in OpCfgs,
          hasMemEventSchema \in BOOLEAN :
          op = OpEnter([x \in 1..Len(kinds) |->
                           [rankId |-> x - 1, corrupt |-> kinds[x].corrupt,
                            pb |-> kinds[x].pb]],
                       cfg, hasMemEventSchema)
    /\ fb = Idle
    /\ fbArg = <<>>
    /\ pipe = Idle
    /\ pids = Idle
    /\ mem = Idle

OpTerminated(w) == op.workers[w].pc \in {"exited", "raised"}

\* lines 464-477: start the process of the next gpuId
OpStart ==
    /\ op.pc = "start"
    /\ op.gpuId < op.cfg.gpuPerTrainer
    /\ op' = [op EXCEPT !.workers[op.gpuId + 1].pc = "select",
                        !.pidList = Append(op.pidList, op.gpuId + 1),
                        !.gpuId = op.gpuId + 1]
    /\ UNCHANGED <<fb, fbArg, pipe, pids, mem>>

\* line 479: all processes are started
OpStarted ==
    /\ op.pc = "start"
    /\ op.gpuId >= op.cfg.gpuPerTrainer
    /\ op' = [op EXCEPT !.pc = "join", !.t = 1]
    /\ UNCHANGED <<fb, fbArg, pipe, pids, mem>>

\* lines 426-438, in the process w: the files of its gpuId are parsed
OpWorkerParse(w) ==
    /\ op.workers[w].pc = "select"
    /\ LET res == parseTask(OpNewFileList(op.fileFist, op.workers[w].gpuId, op.cfg))
       IN  op' = [op EXCEPT !.workers[w] =
                     IF res.ok
                     THEN [@ EXCEPT !.pc = "build", !.profile_dict = res.value]
                     ELSE [@ EXCEPT !.pc = "raised", !.error = "DecodeError"]]
    /\ UNCHANGED <<fb, fbArg, pipe, pids, mem>>

\* lines 439-453, in the process w: the document is built
OpWorkerBuild(w) ==
    /\ op.workers[w].pc = "build"
    /\ LET res == OpBuild(op.workers[w].profile_dict, op.workers[w].gpuId,
                          op.cfg, op.hasMemEventSchema)
       IN  op' = [op EXCEPT !.workers[w] =
                     IF res.ok
                     THEN [@ EXCEPT !.pc = "dump", !.trace = res.value]
                     ELSE [@ EXCEPT !.pc = "raised", !.error = res.value]]
    /\ UNCHANGED <<fb, fbArg, pipe, pids, mem>>

\* line 454, in the process w: dumpOpInfoDict writes the document of its
\* gpuId out
OpWorkerDump(w) ==
    /\ op.workers[w].pc = "dump"
    /\ op' = [op EXCEPT !.dumped = Append(op.dumped,
                                          [gpuId |-> op.workers[w].gpuId,
                                           trace |-> op.workers[w].trace]),
                        !.workers[w].pc = "dumped"]
    /\ UNCHANGED <<fb, fbArg, pipe, pids, mem>>

\* line 456, in the process w: the target returns and the process exits
OpWorkerExit(w) ==
    /\ op.workers[w].pc = "dumped"
    /\ op' = [op EXCEPT !.workers[w].pc = "exited"]
    /\ UNCHANGED <<fb, fbArg, pipe, pids, mem>>

\* lines 479-484: t.join() returns once the process has terminated
OpJoin ==
    /\ op.pc = "join"
    /\ op.t <= Len(op.workers)
    /\ OpTerminated(op.t)
    /\ op' = [op EXCEPT
                !.pidList = SelectSeq(op.pidList, LAMBDA p : p # op.t),
                !.t = op.t + 1]
    /\ UNCHANGED <<fb, fbArg, pipe, pids, mem>>

\* lines 486-488: all processes are joined; opInfo = {} is returned
OpReturn ==
    /\ op.pc = "join"
    /\ op.t > Len(op.workers)
    /\ op' = [op EXCEPT !.pc = "return", !.opInfo = <<>>]
    /\ UNCHANGED <<fb, fbArg, pipe, pids, mem>>

OpNext ==
    \/ OpStart
    \/ OpStarted
    \/ \E w \in 1..Len(op.workers) : OpWorkerParse(w)
    \/ \E w \in 1..Len(op.workers) : OpWorkerBuild(w)
    \/ \E w \in 1..Len(op.workers) : OpWorkerDump(w)
    \/ \E w \in 1..Len(op.workers) : OpWorkerExit(w)
    \/ OpJoin
    \/ OpReturn

SpecOp == OpInit /\ [][OpNext]_vars

(***************************************************************************)
(* Properties of getOPTraceInfo (SpecOp).                                  *)
(***************************************************************************)
\* The workers that failed before writing their document.
OpFailed == {w \in 1..Len(op.workers) : op.workers[w].pc = "raised"}

\* C10: getOPTraceInfo never finishes silently with an incomplete result:
\* when the worker of some gpuId failed before writing its document, the
\* value returned names that gpuId, hence is not the empty dict returned
\* when every worker succeeded.
C10_FailureSignalled ==
    op.pc = "return" =>
        \A w \in OpFailed :
            \E x \in 1..Len(op.opInfo) :
                op.opInfo[x].k = Decimal(op.workers[w].gpuId)

\* The workers whose three passes have run, to their end or to an error.
OpBuilt ==
    {w \in 1..Len(op.workers) :
        \/ op.workers[w].pc \in {"dump", "dumped", "exited"}
        \/ op.workers[w].pc = "raised" /\ op.workers[w].error # "DecodeError"}

\* The events of a profile that are not GPU-kernel events of another device
\* than gpuId.
OpOwnEvents(pb, gpuId) ==
    SelectSeq(pb.events,
              LAMBDA event : ~(event.type = "GPUKernel" /\ event.device_id # gpuId))

RECURSIVE OpNumOwnEvents(_, _, _)
OpNumOwnEvents(profile_dict, gpuId, r) ==
    IF r > Len(profile_dict) THEN 0
    ELSE Len(OpOwnEvents(profile_dict[r].pb, gpuId))
             + OpNumOwnEvents(profile_dict, gpuId, r + 1)

\* C13: _allocate_events, run on the table _allocate_pids built for the same
\* profiles and gpuId, skips a GPU-kernel event of another device than gpuId
\* without error and resolves every other event to an id of the table: for
\* the ranks _getOPTraceInfoByGpuId admits the lookup never fails.
C13_ForeignKernelsSkipped ==
    \A w \in OpBuilt :
        LET profile_dict == op.workers[w].profile_dict
            gpuId == op.workers[w].gpuId
            p == allocate_pids(profile_dict, gpuId, OpTraceInitPid)
            e == allocate_events(profile_dict, p.devices, gpuId, op.cfg)
        IN  /\ e.pc = "return"
            /\ Len(e.events) = OpNumOwnEvents(profile_dict, gpuId, 1)
            /\ \A x \in 1..Len(e.events) :
                  \E key \in DOMAIN p.devices : p.devices[key] = e.events[x].pid

\* C14: when the mem event section is absent from the profiles, or the
\* MemEvent schema is unavailable, _getOPTraceInfoByGpuId takes it as an
\* empty sequence: given that the timeline pass succeeds, the worker raises
\* nothing and its document is the metadata and the timeline entries, with
\* no counter entry.
C14_NoMemSectionTolerated ==
    \A w \in OpBuilt :
        LET profile_dict == op.workers[w].profile_dict
            gpuId == op.workers[w].gpuId
            p == allocate_pids(profile_dict, gpuId, OpTraceInitPid)
            e == allocate_events(profile_dict, p.devices, gpuId, op.cfg)
            absent ==
                \/ ~op.hasMemEventSchema
                \/ \A r \in 1..Len(profile_dict) :
                      ~profile_dict[r].pb.has_mem_events
        IN  (absent /\ e.pc = "return") =>
                /\ op.workers[w].pc # "raised"
                /\ op.workers[w].trace = [traceEvents |-> p.metadata \o e.events]

\* The workers that have put their document together.
OpAssembled ==
    {w \in 1..Len(op.workers) : op.workers[w].pc \in {"dump", "dumped", "exited"}}

\* C15: in the document _getOPTraceInfoByGpuId assembles there is exactly
\* one metadata entry for each track id _allocate_pids allocated and none
\* for any other id, and every timeline entry and every counter entry comes
\* after the metadata entry of the id it references.
C15_MetadataBeforeUse ==
    \A w \in OpAssembled :
        LET T == op.workers[w].trace.traceEvents
            p == allocate_pids(op.workers[w].profile_dict, op.workers[w].gpuId,
                               OpTraceInitPid)
            meta == {x \in 1..Len(T) : T[x].ph = "M"}
        IN  /\ \A id \in PidsIds(p) :
                  Cardinality({x \in meta : T[x].pid = id}) = 1
            /\ \A x \in meta : T[x].pid \in PidsIds(p)
            /\ \A x \in 1..Len(T) :
                  T[x].ph \in {"X", "C"} =>
                      \E y \in meta : y < x /\ T[y].pid = T[x].pid

\* A document of two ranks with metadata, timeline and counter entries.
C15_Witness ==
    \E w \in OpAssembled :
        LET T == op.workers[w].trace.traceEvents
        IN  /\ op.workers[w].pc = "exited"
            /\ Len(op.workers[w].profile_dict) >= 2
            /\ Cardinality({x \in 1..Len(T) : T[x].ph = "X"}) >= 2
            /\ Cardinality({x \in 1..Len(T) : T[x].ph = "C"}) >= 2
            /\ Cardinality({x \in 1..Len(T) : T[x].ph = "M"}) >= 5

====
